---- MODULE Spec2Model ----
(***************************************************************************)
(* Model of openrouter_model_checker.py: one HTTP fetch of the model       *)
(* catalogue, the per-query availability report, the free-model filter and *)
(* the supplier table.                                                     *)
(*                                                                         *)
(* Python strings are sequences of code points, so that substring, suffix, *)
(* split, strip and ordering are computed as str does them.  A printed     *)
(* line is a record: its kind names the print statement, and the values    *)
(* interpolated in it are kept in the fields a, b, c (column padding is    *)
(* layout only and is not kept).                                           *)
(***************************************************************************)
EXTENDS Integers, Sequences, FiniteSets, TLC

VARIABLES pc, response, MODELS_TO_CHECK, all_models_data, free_models_list, out, exc

vars == <<pc, response, MODELS_TO_CHECK, all_models_data, free_models_list, out, exc>>

----------------------------------------------------------------------------
(* Bounds *)

\* longest record sequence the API returns or a caller passes
MaxModels == 3

----------------------------------------------------------------------------
(* str *)

SLASH == 47
SEMICOLON == 59
SPACE == 32
\* ":free"
FREE_SUFFIX == <<58, 102, 114, 101, 101>>
\* "data"
DATA_KEY == <<100, 97, 116, 97>>
\* "N/A"
NA == <<78, 47, 65>>
\* "z"
SORT_DEFAULT == <<122>>
\* ""
EMPTY == <<>>

\* q in s
Contains(s, q) ==
    \E i \in 0..(Len(s) - Len(q)) : SubSeq(s, i + 1, i + Len(q)) = q

\* s.endswith(suf)
EndsWith(s, suf) ==
    /\ Len(suf) <= Len(s)
    /\ SubSeq(s, Len(s) - Len(suf) + 1, Len(s)) = suf

\* a < b on str: code point order, a proper prefix is smaller
StrLess(a, b) ==
    \E i \in 1..(Len(a) + 1) :
        /\ i <= Len(b)
        /\ \A j \in 1..(i - 1) : a[j] = b[j]
        /\ (i = Len(a) + 1 \/ a[i] < b[i])

RECURSIVE Split(_, _)
\* s.split(sep) for a one-character sep
Split(s, sep) ==
    IF \A i \in 1..Len(s) : s[i] # sep
    THEN <<s>>
    ELSE LET i == CHOOSE k \in 1..Len(s) :
                      s[k] = sep /\ \A j \in 1..(k - 1) : s[j] # sep
         IN  <<SubSeq(s, 1, i - 1)>> \o Split(SubSeq(s, i + 1, Len(s)), sep)

RECURSIVE Strip(_)
\* s.strip()
Strip(s) ==
    IF s = <<>> THEN s
    ELSE IF Head(s) = SPACE THEN Strip(Tail(s))
    ELSE IF s[Len(s)] = SPACE THEN Strip(SubSeq(s, 1, Len(s) - 1))
    ELSE s

RECURSIVE Digits(_)
\* str(n), n >= 0
Digits(n) ==
    IF n < 10 THEN <<48 + n>> ELSE Digits(n \div 10) \o <<48 + (n % 10)>>

RECURSIVE FormatThousands(_)
\* f"{n:,}", n >= 0
FormatThousands(n) ==
    IF n < 1000 THEN Digits(n)
    ELSE LET r == n % 1000
         IN  FormatThousands(n \div 1000)
                 \o <<44, 48 + (r \div 100), 48 + ((r \div 10) % 10), 48 + (r % 10)>>

----------------------------------------------------------------------------
(* Model records and JSON values *)

\* a dict of the 'data' array; a key that is absent has its has_ flag FALSE
ModelRecord(has_id, id, has_ctx, ctx) ==
    [has_id |-> has_id, id |-> id, has_context_length |-> has_ctx, context_length |-> ctx]

\* "a/b:free"
FreeAB == ModelRecord(TRUE, <<97, 47, 98>> \o FREE_SUFFIX, TRUE, 131072)
\* "a/b"
PaidAB == ModelRecord(TRUE, <<97, 47, 98>>, TRUE, 131072)
\* "b:free", no supplier prefix, no context_length
FreeB == ModelRecord(TRUE, <<98>> \o FREE_SUFFIX, FALSE, 0)
\* "zz/q:free"
FreeZZQ == ModelRecord(TRUE, <<122, 122, 47, 113>> \o FREE_SUFFIX, FALSE, 0)
\* "zz/q"
PaidZZQ == ModelRecord(TRUE, <<122, 122, 47, 113>>, TRUE, 4096)
\* no id
NoId == ModelRecord(FALSE, EMPTY, TRUE, 4096)

Records == {FreeAB, PaidAB, FreeB, FreeZZQ, PaidZZQ, NoId}

RecordSeqs == UNION {[1..n -> Records] : n \in 0..MaxModels}

\* None
PyNone == [kind |-> "null", items |-> <<>>]
\* a list of dicts
PyList(items) == [kind |-> "list", items |-> items]

\* the values the 'data' field takes
DataValues == {PyNone} \cup {PyList(s) : s \in RecordSeqs}

\* bool(v)
Truthy(v) == v.kind = "list" /\ Len(v.items) > 0

\* model.get('id', default)
GetId(model, default) == IF model.has_id THEN model.id ELSE default

\* model.get('context_length', 0)
GetContextLength(model) ==
    IF model.has_context_length THEN model.context_length ELSE 0

\* a parsed JSON body: an object (keys, and the value under 'data'), an
\* array of strings, a string, or a number / null / boolean
Body(kind, keys, data, items, text) ==
    [kind |-> kind, keys |-> keys, data |-> data, items |-> items, text |-> text]

\* "error"
ERROR_KEY == <<101, 114, 114, 111, 114>>

Bodies ==
    {Body("object", {DATA_KEY}, d, <<>>, EMPTY) : d \in DataValues}
        \cup { Body("object", {ERROR_KEY}, PyNone, <<>>, EMPTY),
               Body("object", {}, PyNone, <<>>, EMPTY),
               Body("array", {}, PyNone, <<>>, EMPTY),
               Body("array", {}, PyNone, <<DATA_KEY>>, EMPTY),
               Body("string", {}, PyNone, <<>>, <<120>>),
               Body("string", {}, PyNone, <<>>, <<120>> \o DATA_KEY \o <<120>>),
               Body("number", {}, PyNone, <<>>, EMPTY),
               Body("null", {}, PyNone, <<>>, EMPTY),
               Body("bool", {}, PyNone, <<>>, EMPTY) }

\* what requests.get / raise_for_status / json do on one call
Response(outcome, body) == [outcome |-> outcome, body |-> body]

NoBody == Body("null", {}, PyNone, <<>>, EMPTY)

Responses ==
    { Response("transport_error", NoBody),
      Response("http_status_error", NoBody),
      Response("json_decode_error", NoBody) }
        \cup {Response("parsed", b) : b \in Bodies}

\* the configuration string
ConfigStrings ==
    { \* "gpt-oss-20b;deepseek-r1;qwen"
      <<103,112,116,45,111,115,115,45,50,48,98,59,100,101,101,112,115,101,101,107,45,114,49,59,113,119,101,110>>,
      \* "b;q"
      <<98, 59, 113>>,
      \* " a/b ;"
      <<32, 97, 47, 98, 32, 59>>,
      \* "zz; b"
      <<122, 122, 59, 32, 98>>,
      \* ""
      EMPTY }

----------------------------------------------------------------------------
(* Printed lines and exceptions *)

Line(kind, a, b, c) == [kind |-> kind, a |-> a, b |-> b, c |-> c]

Msg(kind) == Line(kind, EMPTY, EMPTY, EMPTY)

NoExc == [type |-> "", fn |-> ""]

Raised(type, fn) == [type |-> type, fn |-> fn]

\* what a call did: the lines it printed, the exception it raised and,
\* without one, the value it returned
Outcome(lines, e, ret) == [lines |-> lines, exc |-> e, ret |-> ret]

----------------------------------------------------------------------------
(* fetch_models *)

\* "data" in data, for the parsed body; "TypeError" where `in` raises
DataIn(body) ==
    CASE body.kind = "object" -> IF DATA_KEY \in body.keys THEN "yes" ELSE "no"
      [] body.kind = "array"  ->
            IF \E i \in 1..Len(body.items) : body.items[i] = DATA_KEY
            THEN "yes" ELSE "no"
      [] body.kind = "string" -> IF Contains(body.text, DATA_KEY) THEN "yes" ELSE "no"
      [] OTHER                -> "TypeError"

fetch_models(resp) ==
    IF resp.outcome \in {"transport_error", "http_status_error", "json_decode_error"}
    THEN \* every one is a RequestException: the first handler takes it
         Outcome(<<Msg("err_connect"), Msg("err_details")>>, NoExc, PyNone)
    ELSE LET has == DataIn(resp.body)
         IN  CASE has = "TypeError" ->
                    Outcome(<<>>, Raised("TypeError", "fetch_models"), PyNone)
               [] has = "no" ->
                    Outcome(<<Msg("err_no_data_field")>>, NoExc, PyNone)
               [] OTHER ->
                    \* data["data"]
                    IF resp.body.kind = "object"
                    THEN Outcome(<<>>, NoExc, resp.body.data)
                    ELSE Outcome(<<>>, Raised("TypeError", "fetch_models"), PyNone)

----------------------------------------------------------------------------
(* check_specific_models *)

\* a condition tested on the wrong string: it holds of every record
Matches_any(name, model_id) == Contains(model_id, EMPTY)

\* name in model_id
Matches(name, model_id) == Contains(model_id, name)

\* model_id.endswith(':free')
IsFreeId(model_id) == EndsWith(model_id, FREE_SUFFIX)

RECURSIVE CollectMatches(_, _, _, _)
\* the scan of all_models for one name
CollectMatches(name, items, found_free_models, found_non_free_models) ==
    IF items = <<>>
    THEN [free |-> found_free_models, non_free |-> found_non_free_models]
    ELSE LET model == Head(items)
             model_id == GetId(model, EMPTY)
         IN  IF Matches(name, model_id)
             THEN IF IsFreeId(model_id)
                  THEN CollectMatches(name, Tail(items),
                                      Append(found_free_models, model),
                                      found_non_free_models)
                  ELSE CollectMatches(name, Tail(items),
                                      found_free_models,
                                      Append(found_non_free_models, model))
             ELSE CollectMatches(name, Tail(items),
                                 found_free_models, found_non_free_models)

RECURSIVE PrintMatchRows(_)
\* one row per found model; model.get('id') is None for a record without
\* id, and None does not take the format spec '<58'
PrintMatchRows(models) ==
    IF models = <<>>
    THEN Outcome(<<>>, NoExc, PyNone)
    ELSE LET model == Head(models)
             context_len == FormatThousands(GetContextLength(model))
         IN  IF ~model.has_id
             THEN Outcome(<<>>, Raised("TypeError", "check_specific_models"), PyNone)
             ELSE LET rest == PrintMatchRows(Tail(models))
                  IN  Outcome(<<Line("match_row", EMPTY, model.id, context_len)>>
                                  \o rest.lines,
                              rest.exc, PyNone)

\* the body of the loop over model_names_to_check
CheckQuery(name, items) ==
    LET found == CollectMatches(name, items, <<>>, <<>>)
        query == Line("query", name, EMPTY, EMPTY)
    IN  IF found.free # <<>>
        THEN LET rows == PrintMatchRows(found.free)
             IN  Outcome(<<query, Msg("status_free"), Msg("list_header"),
                           Msg("list_rule")>> \o rows.lines,
                         rows.exc, PyNone)
        ELSE IF found.non_free # <<>>
        THEN LET rows == PrintMatchRows(found.non_free)
             IN  Outcome(<<query, Msg("status_not_free"), Msg("list_header"),
                           Msg("list_rule")>> \o rows.lines,
                         rows.exc, PyNone)
        ELSE Outcome(<<query, Msg("status_not_found")>>, NoExc, PyNone)

RECURSIVE CheckQueries(_, _)
\* the loop over model_names_to_check; an exception ends it
CheckQueries(names, items) ==
    IF names = <<>>
    THEN Outcome(<<>>, NoExc, PyNone)
    ELSE LET first == CheckQuery(Head(names), items)
         IN  IF first.exc # NoExc
             THEN first
             ELSE LET rest == CheckQueries(Tail(names), items)
                  IN  Outcome(first.lines \o rest.lines, rest.exc, PyNone)

\* [name.strip() for name in models_to_check_str.split(';')]
ModelNamesToCheck(models_to_check_str) ==
    LET parts == Split(models_to_check_str, SEMICOLON)
    IN  [i \in 1..Len(parts) |-> Strip(parts[i])]

check_specific_models(models_to_check_str, all_models) ==
    IF ~Truthy(all_models)
    THEN Outcome(<<Msg("check_title"), Msg("check_no_list")>>, NoExc, PyNone)
    ELSE LET r == CheckQueries(ModelNamesToCheck(models_to_check_str),
                               all_models.items)
         IN  Outcome(<<Msg("check_title")>> \o r.lines, r.exc, PyNone)

----------------------------------------------------------------------------
(* filter_free_models *)

RECURSIVE FilterLoop(_, _)
\* the loop that appends every free model to free_models
FilterLoop(items, free_models) ==
    IF items = <<>>
    THEN free_models
    ELSE LET model == Head(items)
         IN  IF EndsWith(GetId(model, EMPTY), FREE_SUFFIX)
             THEN FilterLoop(Tail(items), Append(free_models, model))
             ELSE FilterLoop(Tail(items), free_models)

RECURSIVE Reverse(_)
Reverse(s) == IF s = <<>> THEN s ELSE Append(Reverse(Tail(s)), Head(s))

\* free_models.insert(0, model) in place of append
filter_free_models_insert_front(models) ==
    IF ~Truthy(models) THEN PyList(<<>>)
    ELSE PyList(Reverse(FilterLoop(models.items, <<>>)))

\* the loop starts at the second model
filter_free_models_skip_first(models) ==
    IF ~Truthy(models) THEN PyList(<<>>)
    ELSE PyList(FilterLoop(Tail(models.items), <<>>))

filter_free_models(models) ==
    IF ~Truthy(models) THEN PyList(<<>>)
    ELSE PyList(FilterLoop(models.items, <<>>))

----------------------------------------------------------------------------
(* display_free_models_with_supplier *)

\* the key of sorted(): (m.get('id', 'z').split('/')[0], m.get('id', ''))
SortKey(m) == <<Split(GetId(m, SORT_DEFAULT), SLASH)[1], GetId(m, EMPTY)>>

\* k1 < k2 on tuples of two str
KeyLess(k1, k2) ==
    \/ StrLess(k1[1], k2[1])
    \/ k1[1] = k2[1] /\ StrLess(k1[2], k2[2])

RECURSIVE InsertSorted(_, _)
\* x placed after every element whose key is not greater: sorted() is stable
InsertSorted(x, s) ==
    IF s = <<>> THEN <<x>>
    ELSE IF KeyLess(SortKey(x), SortKey(Head(s))) THEN <<x>> \o s
    ELSE <<Head(s)>> \o InsertSorted(x, Tail(s))

RECURSIVE SortLoop(_, _)
SortLoop(items, acc) ==
    IF items = <<>> THEN acc
    ELSE SortLoop(Tail(items), InsertSorted(Head(items), acc))

\* sorted(models, key=...)
SortedModels(items) == SortLoop(items, <<>>)

\* one row of the table
TableRow(model) ==
    LET model_id == GetId(model, NA)
        supplier == IF Contains(model_id, <<SLASH>>)
                    THEN Split(model_id, SLASH)[1]
                    ELSE NA
        context_length == FormatThousands(GetContextLength(model))
    IN  Line("table_row", supplier, model_id, context_length)

display_free_models_with_supplier(models) ==
    IF ~Truthy(models)
    THEN Outcome(<<Msg("table_title"), Msg("none_found")>>, NoExc, PyNone)
    ELSE LET sorted_models == SortedModels(models.items)
         IN  Outcome(<<Msg("table_title"), Msg("table_header"), Msg("table_rule")>>
                         \o [i \in 1..Len(sorted_models) |-> TableRow(sorted_models[i])],
                     NoExc, PyNone)

----------------------------------------------------------------------------
(* The program run: the block under __main__ *)

TypeOK ==
    /\ pc \in {"start", "fetched", "checked", "filtered", "done", "crashed",
               "call", "check_returned", "filter_returned",
               "refilter_returned", "display_returned"}
    /\ response \in Responses
    /\ MODELS_TO_CHECK \in ConfigStrings
    /\ all_models_data.kind \in {"null", "list"}
    /\ free_models_list.kind \in {"null", "list"}
    /\ exc.type \in {"", "TypeError"}

Init ==
    /\ pc = "start"
    /\ response \in Responses
    /\ MODELS_TO_CHECK \in ConfigStrings
    /\ all_models_data = PyNone
    /\ free_models_list = PyNone
    /\ out = <<>>
    /\ exc = NoExc

\* the guard of the block is always taken
MainGuard_always(data) == data = data

\* if all_models_data:
MainGuard(data) == Truthy(data)

\* all_models_data = fetch_models()
MainFetch ==
    /\ pc = "start"
    /\ LET r == fetch_models(response)
       IN  /\ out' = <<Msg("fetching")>> \o r.lines
           /\ exc' = r.exc
           /\ all_models_data' = r.ret
           /\ pc' = IF r.exc # NoExc THEN "crashed" ELSE "fetched"
    /\ UNCHANGED <<response, MODELS_TO_CHECK, free_models_list>>

\* the guard is false: the block is skipped and the script ends
MainSkip ==
    /\ pc = "fetched"
    /\ ~MainGuard(all_models_data)
    /\ pc' = "done"
    /\ UNCHANGED <<response, MODELS_TO_CHECK, all_models_data, free_models_list, out, exc>>

\* check_specific_models(MODELS_TO_CHECK, all_models_data)
MainCheck ==
    /\ pc = "fetched"
    /\ MainGuard(all_models_data)
    /\ LET r == check_specific_models(MODELS_TO_CHECK, all_models_data)
       IN  /\ out' = out \o <<Msg("fetch_ok")>> \o r.lines
           /\ exc' = r.exc
           /\ pc' = IF r.exc # NoExc THEN "crashed" ELSE "checked"
    /\ UNCHANGED <<response, MODELS_TO_CHECK, all_models_data, free_models_list>>

\* free_models_list = filter_free_models(all_models_data)
MainFilter ==
    /\ pc = "checked"
    /\ free_models_list' = filter_free_models(all_models_data)
    /\ pc' = "filtered"
    /\ UNCHANGED <<response, MODELS_TO_CHECK, all_models_data, out, exc>>

\* display_free_models_with_supplier(free_models_list)
MainDisplay ==
    /\ pc = "filtered"
    /\ LET r == display_free_models_with_supplier(free_models_list)
       IN  /\ out' = out \o r.lines
           /\ exc' = r.exc
           /\ pc' = IF r.exc # NoExc THEN "crashed" ELSE "done"
    /\ UNCHANGED <<response, MODELS_TO_CHECK, all_models_data, free_models_list>>

Next ==
    \/ MainFetch
    \/ MainSkip
    \/ MainCheck
    \/ MainFilter
    \/ MainDisplay

Spec == Init /\ [][Next]_vars

----------------------------------------------------------------------------
(* Each function called on its own, on any argument *)

InitCalls ==
    /\ pc = "call"
    /\ response = Response("transport_error", NoBody)
    /\ MODELS_TO_CHECK \in ConfigStrings
    /\ all_models_data \in DataValues
    /\ free_models_list = PyNone
    /\ out = <<>>
    /\ exc = NoExc

\* check_specific_models(MODELS_TO_CHECK, all_models_data)
CallCheck ==
    /\ pc = "call"
    /\ LET r == check_specific_models(MODELS_TO_CHECK, all_models_data)
       IN  /\ out' = r.lines
           /\ exc' = r.exc
    /\ pc' = "check_returned"
    /\ UNCHANGED <<response, MODELS_TO_CHECK, all_models_data, free_models_list>>

\* free_models_list = filter_free_models(all_models_data)
CallFilter ==
    /\ pc = "call"
    /\ free_models_list' = filter_free_models(all_models_data)
    /\ pc' = "filter_returned"
    /\ UNCHANGED <<response, MODELS_TO_CHECK, all_models_data, out, exc>>

\* the filter applied to its own result
CallFilterAgain ==
    /\ pc = "filter_returned"
    /\ all_models_data' = free_models_list
    /\ free_models_list' = filter_free_models(free_models_list)
    /\ pc' = "refilter_returned"
    /\ UNCHANGED <<response, MODELS_TO_CHECK, out, exc>>

\* display_free_models_with_supplier(all_models_data)
CallDisplay ==
    /\ pc = "call"
    /\ LET r == display_free_models_with_supplier(all_models_data)
       IN  /\ out' = r.lines
           /\ exc' = r.exc
    /\ pc' = "display_returned"
    /\ UNCHANGED <<response, MODELS_TO_CHECK, all_models_data, free_models_list>>

NextCalls ==
    \/ CallCheck
    \/ CallFilter
    \/ CallFilterAgain
    \/ CallDisplay

SpecCalls == InitCalls /\ [][NextCalls]_vars

----------------------------------------------------------------------------
(* Reading the printed report *)

IsMatchRow(l) == l.kind = "match_row"

IsTableRow(l) == l.kind = "table_row"

IsStatus(l) == l.kind \in {"status_free", "status_not_free", "status_not_found"}

\* the lines that one of the two report stages prints
IsStageLine(l) ==
    l.kind \in {"check_title", "check_no_list", "query", "status_free",
                "status_not_free", "status_not_found", "list_header",
                "list_rule", "match_row", "table_title", "none_found",
                "table_header", "table_rule", "table_row"}

QueryLines == {i \in 1..Len(out) : out[i].kind = "query"}

\* the position in out of the k-th "Query:" line
NthQuery(k) ==
    CHOOSE i \in QueryLines : Cardinality({j \in QueryLines : j <= i}) = k

\* the lines printed for the query announced at position i
Section(i) ==
    LET later == {j \in QueryLines : j > i}
        last == IF later = {} THEN Len(out)
                ELSE (CHOOSE j \in later : \A m \in later : j <= m) - 1
    IN  SubSeq(out, i + 1, last)

\* the ids of the rows listed for the query at position i
ListedIds(i) ==
    LET rows == SelectSeq(Section(i), IsMatchRow)
    IN  [k \in 1..Len(rows) |-> rows[k].b]

\* the status lines printed for the query at position i
StatusKinds(i) ==
    LET st == SelectSeq(Section(i), IsStatus)
    IN  [k \in 1..Len(st) |-> st[k].kind]

\* the rows of the supplier table
TableRows == SelectSeq(out, IsTableRow)

\* the id a record is matched on, '' when it has none
IdOf(m) == IF m.has_id THEN m.id ELSE <<>>

HasFreeId(m) == m.has_id /\ EndsWith(m.id, FREE_SUFFIX)

\* the positions of R whose element satisfies the test, as an ordered pick
Pick(R, P) ==
    [k \in 1..Cardinality(P) |->
        R[CHOOSE i \in P : Cardinality({j \in P : j <= i}) = k]]

\* the records of R whose id contains q, free ones or the others, in order
FreeMatches(R, q) ==
    Pick(R, {i \in 1..Len(R) : Contains(IdOf(R[i]), q) /\ HasFreeId(R[i])})

NonFreeMatches(R, q) ==
    Pick(R, {i \in 1..Len(R) : Contains(IdOf(R[i]), q) /\ ~HasFreeId(R[i])})

IdsOf(ms) == [k \in 1..Len(ms) |-> IdOf(ms[k])]

\* (supplier, id) of row r1 is lexicographically <= that of row r2
PairLeq(a1, b1, a2, b2) ==
    \/ StrLess(a1, a2)
    \/ a1 = a2 /\ (b1 = b2 \/ StrLess(b1, b2))

----------------------------------------------------------------------------
(* Claims *)

\* C1: for every query q and non-empty R given to check_specific_models,
\* exactly one status is reported per query: "free" with exactly the free
\* matches listed when some match is free, else "not free" with exactly the
\* non-free matches listed when some record matches, else "not found" with
\* no row.
C1_SelectionPolicy ==
    (pc = "check_returned" /\ Truthy(all_models_data)) =>
        LET names == ModelNamesToCheck(MODELS_TO_CHECK)
            R == all_models_data.items
        IN  /\ Cardinality(QueryLines) = Len(names)
            /\ \A k \in 1..Len(names) :
                 LET i == NthQuery(k)
                     q == names[k]
                     free == FreeMatches(R, q)
                     non_free == NonFreeMatches(R, q)
                 IN  /\ out[i].a = q
                     /\ IF free # <<>>
                        THEN /\ StatusKinds(i) = <<"status_free">>
                             /\ ListedIds(i) = IdsOf(free)
                        ELSE IF non_free # <<>>
                        THEN /\ StatusKinds(i) = <<"status_not_free">>
                             /\ ListedIds(i) = IdsOf(non_free)
                        ELSE /\ StatusKinds(i) = <<"status_not_found">>
                             /\ ListedIds(i) = <<>>

\* C2 as stated: when fetch_models returns the no-data signal, the run
\* still prints the Matcher's "no data" message and the Supplier Reporter's
\* "none found" message, and renders no table row.
C2_BothStagesReport ==
    (pc = "done" /\ all_models_data = PyNone) =>
        /\ \E i \in 1..Len(out) : out[i].kind = "check_no_list"
        /\ \E i \in 1..Len(out) : out[i].kind = "none_found"
        /\ \A i \in 1..Len(out) : out[i].kind \notin {"match_row", "table_row"}

\* C2 amended: when fetch_models returns the no-data signal, the run calls
\* neither report stage: no line of either stage is printed (neither the
\* "no data" nor the "none found" message, and no row) and the run ends.
C2_NeitherStageRuns ==
    (pc \notin {"start", "crashed"} /\ all_models_data = PyNone) =>
        /\ pc \in {"fetched", "done"}
        /\ \A i \in 1..Len(out) : ~IsStageLine(out[i])

C2_Witness ==
    /\ pc = "done"
    /\ all_models_data = PyNone
    /\ response.outcome = "transport_error"
    /\ Len(out) = 3

\* C3: whatever the HTTP call does and whatever record sequence comes back
\* as 'data', no exception leaves the run.
C3_NoUnhandledException == exc = NoExc

\* C4: the rows display_free_models_with_supplier prints are sorted: each
\* row's printed (supplier, id) pair is lexicographically <= the next one's.
C4_PrintedRowsSorted ==
    \A k \in 1..(Len(TableRows) - 1) :
        PairLeq(TableRows[k].a, TableRows[k].b,
                TableRows[k + 1].a, TableRows[k + 1].b)

\* C5: every row check_specific_models lists for a query q, in the free or
\* the non-free listing, has an id that contains q.
C5_ListedContainQuery ==
    \A i \in QueryLines :
        \A k \in 1..Len(ListedIds(i)) : Contains(ListedIds(i)[k], out[i].a)

C5_Witness ==
    /\ pc = "check_returned"
    /\ \E i \in QueryLines :
         /\ out[i].a # <<>>
         /\ ListedIds(i) # <<>>
         /\ \E n \in 1..Len(all_models_data.items) :
              /\ all_models_data.items[n].has_id
              /\ ~Contains(all_models_data.items[n].id, out[i].a)
    /\ \E i \in QueryLines : StatusKinds(i) = <<"status_not_free">>
    /\ \E i \in QueryLines : StatusKinds(i) = <<"status_free">>

\* C6: filter_free_models(R) is exactly the records of R whose id ends with
\* ':free', in their original order, nothing added, dropped, duplicated or
\* reordered; an empty or absent R gives the empty list.
C6_FilterIsFreeSubsequence ==
    (pc \in {"filter_returned", "refilter_returned"}) =>
        /\ free_models_list.kind = "list"
        /\ LET R == all_models_data.items
           IN  free_models_list.items =
                   Pick(R, {i \in 1..Len(R) : HasFreeId(R[i])})

C6_Witness ==
    /\ pc = "filter_returned"
    /\ Len(free_models_list.items) >= 2
    /\ free_models_list.items[1] # free_models_list.items[2]
    /\ Len(free_models_list.items) < Len(all_models_data.items)

\* C7: fetch_models returns None when the call raises a connection or
\* timeout error, on a non-2xx status, on an unparseable body and when the
\* parsed body has no 'data' field; in every other case it returns the
\* value of the 'data' field unchanged.
C7_FetchResult ==
    (pc # "start" /\ pc # "call") =>
        LET no_data == \/ response.outcome # "parsed"
                       \/ response.body.kind # "object"
                       \/ DATA_KEY \notin response.body.keys
        IN  /\ exc.fn # "fetch_models"
            /\ all_models_data = IF no_data THEN PyNone ELSE response.body.data

\* C8: filter_free_models applied to its own result returns that result.
C8_FilterIdempotent ==
    (pc = "refilter_returned") => free_models_list = all_models_data

C8_Witness ==
    /\ pc = "refilter_returned"
    /\ Len(free_models_list.items) >= 2

\* C9: an empty query (from a leading, trailing or doubled ';' or a blank
\* segment) matches every record of a non-empty R: status "free" with all
\* free records listed when some record is free, else "not free" with all
\* records listed; never "not found".
C9_EmptyQueryMatchesAll ==
    (pc = "check_returned" /\ Truthy(all_models_data)) =>
        LET names == ModelNamesToCheck(MODELS_TO_CHECK)
            R == all_models_data.items
            free == {n \in 1..Len(R) : HasFreeId(R[n])}
        IN  \A k \in 1..Len(names) :
              (names[k] = <<>>) =>
                 /\ Cardinality(QueryLines) >= k
                 /\ LET i == NthQuery(k)
                    IN  IF free # {}
                        THEN /\ StatusKinds(i) = <<"status_free">>
                             /\ ListedIds(i) = IdsOf(Pick(R, free))
                        ELSE /\ StatusKinds(i) = <<"status_not_free">>
                             /\ Len(ListedIds(i)) = Len(R)

\* C10: the table is sorted ascending by (first '/'-segment of id, id), and
\* every record without an id is printed after every record that has one.
C10_NoIdSortsLast ==
    (pc = "display_returned") =>
        /\ \A k \in 1..(Len(TableRows) - 1) :
             (TableRows[k].b # NA /\ TableRows[k + 1].b # NA) =>
                 PairLeq(Split(TableRows[k].b, SLASH)[1], TableRows[k].b,
                         Split(TableRows[k + 1].b, SLASH)[1], TableRows[k + 1].b)
        /\ \A k \in 1..Len(TableRows) : \A m \in 1..Len(TableRows) :
             (TableRows[k].b = NA /\ TableRows[m].b # NA) => m < k

====
